---- MODULE Spec2Model ----
(***************************************************************************)
(* A model of GoogleAnalyticsUtils (ga_universal.py): get_report,          *)
(* parse_report, list_to_csv_file and get_batch_report.                    *)
(*                                                                         *)
(* Text that the code inspects character by character (header names, CSV   *)
(* fields, delimiters) is a sequence of one-character strings; text the    *)
(* code only builds and passes on (file names, formatted dates,            *)
(* identifiers of a request) is a TLA+ string.                             *)
(***************************************************************************)
EXTENDS Integers, Sequences, FiniteSets, TLC

\* ------------------------------------------------------------------ bounds

\* Longest date range of a batch run, in days past start_date.
MaxSpan == 2
\* Most dimensions, and most metrics, of one request.
MaxIds == 2
\* Most rows of a table handed to list_to_csv_file.
MaxRows == 2
\* Most characters of the one field of such a table that is not plain.
MaxFieldLen == 2

\* ------------------------------------------------------- program constants

\* "pageSize": 100000
PageSize == 100000

\* Python's None, where the other values are strings.
None == "None"

\* An optional argument whose values are character sequences: absent (None),
\* or present with a value.
Absent == <<>>
Present(v) == <<v>>

VARIABLES
    pc,            \* position of the method being executed
    args,          \* the arguments it was called with
    ret,           \* what it returned, or the exception that left it
    sent,          \* request bodies handed to batchGet(...).execute(), in order
    fs,            \* the files of ./files: file name -> rows written to it
    open_handles,  \* names of files whose handle was opened and is not closed
    log,           \* what the logger was given, in order
    current_date,  \* get_batch_report's local
    report,        \* get_batch_report's local
    trace          \* the calls get_batch_report made, in order

vars == <<pc, args, ret, sent, fs, open_handles, log, current_date, report, trace>>

\* ------------------------------------------------------------------- dates

IsLeap(y) == (y % 4 = 0 /\ y % 100 # 0) \/ y % 400 = 0

DaysInMonth(y, m) ==
    IF m = 2 THEN (IF IsLeap(y) THEN 29 ELSE 28)
    ELSE IF m \in {4, 6, 9, 11} THEN 30 ELSE 31

Date(y, m, d) == [y |-> y, m |-> m, d |-> d]

\* current_date += timedelta(days=1)
AddOneDay(dt) ==
    IF dt.d < DaysInMonth(dt.y, dt.m) THEN Date(dt.y, dt.m, dt.d + 1)
    ELSE IF dt.m < 12 THEN Date(dt.y, dt.m + 1, 1)
    ELSE Date(dt.y + 1, 1, 1)

\* end_date >= current_date
DateGE(a, b) ==
    \/ a.y > b.y
    \/ a.y = b.y /\ a.m > b.m
    \/ a.y = b.y /\ a.m = b.m /\ a.d >= b.d

Pad2(n) == IF n < 10 THEN "0" \o ToString(n) ELSE ToString(n)

Pad4(n) ==
    IF n < 10 THEN "000" \o ToString(n)
    ELSE IF n < 100 THEN "00" \o ToString(n)
    ELSE IF n < 1000 THEN "0" \o ToString(n)
    ELSE ToString(n)

\* current_date.strftime("%Y%m%d")
StrftimeCompact(dt) == Pad4(dt.y) \o Pad2(dt.m) \o Pad2(dt.d)

\* report_date.strftime("%Y-%m-%d")
StrftimeDashed(dt) == Pad4(dt.y) \o "-" \o Pad2(dt.m) \o "-" \o Pad2(dt.d)

\* -------------------------------------------------------------- get_report

\* An identifier with the provider's namespace prefix.
Qualified(id) == IF id \in {"country", "sessions"} THEN "ga:" \o id ELSE id

\* Mutant of DimensionObjects: bare identifiers are qualified before sending.
DimensionObjectsQualified(dimensions) ==
    [i \in 1..Len(dimensions) |-> [name |-> Qualified(dimensions[i])]]

\* dimensions = [{"name": dimension} for dimension in dimensions]
DimensionObjects(dimensions) ==
    [i \in 1..Len(dimensions) |-> [name |-> dimensions[i]]]

\* metrics = [{"expression": metric} for metric in metrics]
MetricObjects(metrics) ==
    [i \in 1..Len(metrics) |-> [expression |-> metrics[i]]]

\* The body of the one request get_report issues.
ReportRequestBody(view_id, report_date, dimensions, metrics, sampling) ==
    [reportRequests |-> <<
        [viewId        |-> view_id,
         dateRanges    |-> << [startDate |-> StrftimeDashed(report_date),
                               endDate   |-> StrftimeDashed(report_date)] >>,
         metrics       |-> MetricObjects(metrics),
         dimensions    |-> DimensionObjects(dimensions),
         samplingLevel |-> sampling,
         pageSize      |-> PageSize] >>]

\* ------------------------------------------------------------ parse_report

\* str.replace("ga:", ""): every non-overlapping occurrence, scanning from
\* the left, is removed.
RECURSIVE ReplaceGa(_)
ReplaceGa(s) ==
    IF Len(s) < 3 THEN s
    ELSE IF SubSeq(s, 1, 3) = <<"g", "a", ":">>
         THEN ReplaceGa(SubSeq(s, 4, Len(s)))
         ELSE <<Head(s)>> \o ReplaceGa(Tail(s))

\* [dimension.replace("ga:", "") for dimension in dimensionHeaders]
DimensionHeaders(rep) ==
    [i \in 1..Len(rep.columnHeader.dimensions) |->
        ReplaceGa(rep.columnHeader.dimensions[i])]

\* [metric.get("name").replace("ga:", "") for metric in metricHeaders]
MetricHeaders(rep) ==
    [i \in 1..Len(rep.columnHeader.metricHeader.metricHeaderEntries) |->
        ReplaceGa(rep.columnHeader.metricHeader.metricHeaderEntries[i].name)]

\* The field "view_id" of the header row.
ViewIdLabel == <<"v", "i", "e", "w", "_", "i", "d">>

\* headers = dimensionHeaders + metricHeaders + ["view_id"]
Headers(rep) == DimensionHeaders(rep) \o MetricHeaders(rep) \o <<ViewIdLabel>>

\* Mutant of ParsedRow: the view identifier is not appended.
ParsedRowNoViewId(row, view_id) == row.dimensions \o row.metrics[1].values

\* row.get("dimensions") + row.get("metrics", [])[0].get("values") + [view_id]
ParsedRow(row, view_id) ==
    row.dimensions \o row.metrics[1].values \o <<view_id>>

\* What makes parse_report raise on the responses modelled here, whose rows
\* all hold their dimensions and one metric set: report.get("reports", [])[0]
\* on an empty list.
ParseRaises(response) ==
    IF Len(response.reports) = 0 THEN "IndexError" ELSE None

\* parse_report(report, view_id), when it does not raise.
ParseReport(response, view_id) ==
    LET rep  == response.reports[1]
        rows == rep.data.rows
    IN  <<Headers(rep)>> \o [i \in 1..Len(rows) |-> ParsedRow(rows[i], view_id)]

\* -------------------------------------------------------- list_to_csv_file

QUOTE == "\""
CR == "\r"
LF == "\n"

\* The literal "Extraction Date".
ExtractionDateLabel ==
    <<"E", "x", "t", "r", "a", "c", "t", "i", "o", "n", " ", "D", "a", "t", "e">>

\* Mutant of DoubleQuotes: quote characters are written as they are.
DoubleQuotesKept(f) == f

\* csv's doublequote: every quote character of a field is written twice.
RECURSIVE DoubleQuotes(_)
DoubleQuotes(f) ==
    IF f = <<>> THEN <<>>
    ELSE IF Head(f) = QUOTE THEN <<QUOTE, QUOTE>> \o DoubleQuotes(Tail(f))
    ELSE <<Head(f)>> \o DoubleQuotes(Tail(f))

\* quoting=csv.QUOTE_ALL
QuoteField(f) == <<QUOTE>> \o DoubleQuotes(f) \o <<QUOTE>>

\* One row as csv.writer emits it: the quoted fields joined by the delimiter,
\* then the line terminator "\r\n".
RECURSIVE JoinFields(_, _)
JoinFields(row, delimiter) ==
    IF row = <<>> THEN <<>>
    ELSE IF Len(row) = 1 THEN QuoteField(row[1])
    ELSE QuoteField(Head(row)) \o delimiter \o JoinFields(Tail(row), delimiter)

WriteRow(row, delimiter) == JoinFields(row, delimiter) \o <<CR, LF>>

RECURSIVE WriteRows(_, _)
WriteRows(rows, delimiter) ==
    IF rows = <<>> THEN <<>>
    ELSE WriteRow(Head(rows), delimiter) \o WriteRows(Tail(rows), delimiter)

\* The rows handed to the writer: content itself without an extraction date;
\* otherwise each line with a leading field, chosen by line == content[0].
RowsToWrite(content, extraction_date) ==
    IF extraction_date = Absent THEN content
    ELSE [i \in 1..Len(content) |->
            IF content[i] = content[1]
            THEN <<ExtractionDateLabel>> \o content[i]
            ELSE <<extraction_date[1]>> \o content[i]]

\* What the file system does to one call: every write succeeds, open()
\* fails, or the k-th row write fails.
IoOk == [kind |-> "ok", k |-> 0]
IoOpenFails == [kind |-> "open_fails", k |-> 0]
IoWriteFails(k) == [kind |-> "write_fails", k |-> k]

IoOutcomes(content) ==
    {IoOk, IoOpenFails} \cup {IoWriteFails(k) : k \in 1..Len(content)}

\* csv.writer(file, delimiter=...) raises TypeError unless the delimiter is a
\* 1-character string.
WriterRaises(delimiter) == Len(delimiter) # 1

\* Whether the body of the try block raises.
TryRaises(delimiter, io) == io.kind # "ok" \/ WriterRaises(delimiter)

\* open(filename, "w") creates or truncates the file unless it fails.
FileCreated(io) == io.kind # "open_fails"

\* The rows that reached the file (none when open() failed).
RowsWritten(content, delimiter, extraction_date, io) ==
    IF io.kind = "open_fails" THEN <<>>
    ELSE IF WriterRaises(delimiter) THEN <<>>
    ELSE IF io.kind = "write_fails"
         THEN SubSeq(RowsToWrite(content, extraction_date), 1, io.k - 1)
    ELSE RowsToWrite(content, extraction_date)

\* Whether the handle is open when list_to_csv_file returns. file.close() is
\* the last statement of the try block: it runs only when nothing before it
\* raised. After an exception past open() nothing closes the handle; whether
\* the runtime has finalized the unreferenced file object by then (gc) is not
\* decided by the program.
HandleLeftOpen(delimiter, io, gc) ==
    /\ FileCreated(io)
    /\ TryRaises(delimiter, io)
    /\ ~gc

\* Mutant of ListToCsvFile: no except clause, so what the try block raises
\* leaves the method.
ListToCsvFileNoExcept(filename, content, delimiter, extraction_date, io, gc) ==
    LET rows == RowsWritten(content, delimiter, extraction_date, io)
    IN  [ret      |-> filename,
         raised   |-> IF io.kind # "ok" THEN "OSError"
                      ELSE IF WriterRaises(delimiter) THEN "TypeError" ELSE None,
         created  |-> FileCreated(io),
         rows     |-> rows,
         text     |-> IF WriterRaises(delimiter) THEN <<>>
                      ELSE WriteRows(rows, delimiter),
         left_open |-> HandleLeftOpen(delimiter, io, gc),
         log      |-> <<[level |-> "info", at |-> "list_to_csv_file"]>>]

\* list_to_csv_file: the file it leaves, the handle, what it logs and what it
\* returns. It has no raising exit: except Exception catches what the try
\* block raises.
ListToCsvFile(filename, content, delimiter, extraction_date, io, gc) ==
    LET rows == RowsWritten(content, delimiter, extraction_date, io)
    IN  [ret      |-> filename,
         raised   |-> None,
         created  |-> FileCreated(io),
         rows     |-> rows,
         text     |-> IF WriterRaises(delimiter) THEN <<>>
                      ELSE WriteRows(rows, delimiter),
         left_open |-> HandleLeftOpen(delimiter, io, gc),
         log      |-> <<[level |-> "info", at |-> "list_to_csv_file"]>> \o
                      (IF TryRaises(delimiter, io)
                       THEN <<[level |-> "error", at |-> "list_to_csv_file"]>>
                       ELSE <<>>)]

\* ------------------------------------------------------------------ inputs

\* Days before the first of each month of a common year; a date's proleptic
\* Gregorian ordinal (date.toordinal()). These enumerate inputs and state
\* the properties; the operations above never use them.
CumulativeDays == <<0, 31, 59, 90, 120, 151, 181, 212, 243, 273, 304, 334>>

DateOrdinal(dt) ==
    LET py == dt.y - 1
    IN  365 * py + (py \div 4) - (py \div 100) + (py \div 400)
        + CumulativeDays[dt.m]
        + (IF dt.m > 2 /\ IsLeap(dt.y) THEN 1 ELSE 0)
        + dt.d

CalendarDates ==
    {Date(y, m, d) : y \in 2023..2024, m \in 1..12, d \in 1..31} \cap
    {dt \in [y : 2023..2024, m : 1..12, d : 1..31] : dt.d <= DaysInMonth(dt.y, dt.m)}

DateOfOrdinal(n) == CHOOSE dt \in CalendarDates : DateOrdinal(dt) = n

\* Start dates next to a year end, a leap day and a common February's end.
StartDates ==
    {Date(2023, 12, 30), Date(2023, 12, 31), Date(2024, 2, 28),
     Date(2023, 2, 27), Date(2023, 2, 28)}

\* end_date: from the day before start_date to MaxSpan days after it.
EndDates(start) ==
    {DateOfOrdinal(DateOrdinal(start) + k) : k \in (0 - 1)..MaxSpan}

\* Identifiers of a request, bare and qualified.
Identifiers == {"country", "ga:country", "sessions", "ga:sessions"}

SeqsUpTo(S, n) == UNION {[1..k -> S] : k \in 0..n}

\* The view identifier, as text.
ViewIds == {<<"4", "2">>, <<"7">>}

\* Header names as the provider returns them: "ga:c", "c", "cga:s", "gga:a:s".
HeaderNames ==
    {<<"g", "a", ":", "c">>, <<"c">>, <<"c", "g", "a", ":", "s">>,
     <<"g", "g", "a", ":", "a", ":", "s">>}

\* A response with one report.
Response(dims, mets, rows) ==
    [reports |-> <<
        [columnHeader |->
            [dimensions   |-> dims,
             metricHeader |->
                [metricHeaderEntries |-> [i \in 1..Len(mets) |-> [name |-> mets[i]]]]],
         data |-> [rows |-> rows]] >>]

\* A response with no report.
NoReports == [reports |-> <<>>]

\* Data row number r of a report with D dimensions and M metrics: its values
\* name the row and the column, so that rows and columns can be told apart.
DataRow(r, D, M) ==
    [dimensions |-> [c \in 1..D |-> <<"d", ToString(r), ToString(c)>>],
     metrics    |-> << [values |-> [c \in 1..M |-> <<ToString(r), ToString(c)>>]] >>]

\* The responses parse_report is tried on: every choice of at most MaxIds
\* dimension headers and MaxIds metric headers, with at most MaxIds data rows
\* drawn (with repetition) from two distinct rows.
ParseInputs ==
    {NoReports} \cup
    {Response(dims, mets,
              [i \in 1..Len(ids) |-> DataRow(ids[i], Len(dims), Len(mets))]) :
        dims \in SeqsUpTo(HeaderNames, MaxIds),
        mets \in SeqsUpTo(HeaderNames, MaxIds),
        ids  \in SeqsUpTo(1..2, MaxIds)}

\* The responses the service gives a batch run.
BatchResponses ==
    {NoReports,
     Response(<< <<"g", "a", ":", "c">> >>, << <<"g", "a", ":", "s">> >>, <<>>),
     Response(<< <<"g", "a", ":", "c">> >>, << <<"g", "a", ":", "s">> >>,
              <<DataRow(1, 1, 1)>>)}

EmptyFs == [n \in {} |-> <<>>]

\* --------------------------------------------------------------- get_report

\* batchGet(body=...).execute() either raises or returns a response.
InitReport ==
    /\ pc = "get_report"
    /\ args \in [view_id : ViewIds, report_date : StartDates,
                 dimensions : SeqsUpTo(Identifiers, MaxIds),
                 metrics : SeqsUpTo(Identifiers, MaxIds),
                 sampling : {"LARGE"}]
    /\ ret = None
    /\ sent = <<>>
    /\ fs = EmptyFs
    /\ open_handles = {}
    /\ log = <<>>
    /\ current_date = None
    /\ report = None
    /\ trace = <<>>

GetReportReturns ==
    /\ pc = "get_report"
    /\ \E response \in BatchResponses :
        /\ ret' = response
        /\ pc' = "returned"
    /\ sent' = Append(sent, ReportRequestBody(args.view_id, args.report_date,
                                args.dimensions, args.metrics, args.sampling))
    /\ log' = Append(log, [level |-> "info", at |-> "get_report"])
    /\ UNCHANGED <<args, fs, open_handles, current_date, report, trace>>

GetReportRaises ==
    /\ pc = "get_report"
    /\ ret' = "HttpError"
    /\ pc' = "raised"
    /\ sent' = Append(sent, ReportRequestBody(args.view_id, args.report_date,
                                args.dimensions, args.metrics, args.sampling))
    /\ log' = Append(log, [level |-> "info", at |-> "get_report"])
    /\ UNCHANGED <<args, fs, open_handles, current_date, report, trace>>

NextReport == GetReportReturns \/ GetReportRaises

SpecReport == InitReport /\ [][NextReport]_vars

\* ------------------------------------------------------------- parse_report

InitParse ==
    /\ pc = "parse_report"
    /\ args \in [report : ParseInputs, view_id : ViewIds]
    /\ ret = None
    /\ sent = <<>>
    /\ fs = EmptyFs
    /\ open_handles = {}
    /\ log = <<>>
    /\ current_date = None
    /\ report = None
    /\ trace = <<>>

\* Line 115 raises before anything is logged.
ParseReportRaises ==
    /\ pc = "parse_report"
    /\ ParseRaises(args.report) # None
    /\ ret' = ParseRaises(args.report)
    /\ pc' = "raised"
    /\ UNCHANGED <<args, sent, fs, open_handles, log, current_date, report, trace>>

ParseReportReturns ==
    /\ pc = "parse_report"
    /\ ParseRaises(args.report) = None
    /\ ret' = ParseReport(args.report, args.view_id)
    /\ pc' = "returned"
    /\ log' = Append(log, [level |-> "info", at |-> "parse_report"])
    /\ UNCHANGED <<args, sent, fs, open_handles, current_date, report, trace>>

NextParse == ParseReportRaises \/ ParseReportReturns

SpecParse == InitParse /\ [][NextParse]_vars

\* --------------------------------------------------------- list_to_csv_file

\* Characters of a field: a letter, the usual delimiter, the quote character
\* and a line break.
FieldChars == {"a", ",", QUOTE, LF}

FieldPool == SeqsUpTo(FieldChars, MaxFieldLen)

\* A table of n rows of w fields, all "a" but the field at row r, column c.
TableWith(n, w, r, c, f) ==
    [i \in 1..n |-> [j \in 1..w |-> IF i = r /\ j = c THEN f ELSE <<"a">>]]

\* The tables list_to_csv_file is tried on: at most MaxRows rows of one to
\* MaxIds fields (a table of parse_report has no row without a field), one
\* field of them any text of the pool.
Tables ==
    {TableWith(n, w, 0, 0, <<>>) : n \in 0..MaxRows, w \in 1..MaxIds} \cup
    UNION {{TableWith(n, w, r, c, f) : r \in 1..n, c \in 1..w, f \in FieldPool} :
              n \in 1..MaxRows, w \in 1..MaxIds}

\* ",", ";" and a delimiter csv.writer rejects.
Delimiters == {<<",">>, <<";">>, <<";", ";">>}

WriterFile == "./files/report_20240101.csv"

InitWriter ==
    /\ pc = "list_to_csv_file"
    /\ args \in [filename : {WriterFile}, content : Tables,
                 delimiter : Delimiters,
                 extraction_date : {Absent, Present(<<"2", "0", "2", "4">>)}]
    /\ ret = None
    /\ sent = <<>>
    /\ fs = EmptyFs
    /\ open_handles = {}
    /\ log = <<>>
    /\ current_date = None
    /\ report = None
    /\ trace = <<>>

\* The file system after a call of list_to_csv_file with result r.
FsAfter(files, filename, r) ==
    IF r.created
    THEN [n \in DOMAIN files \cup {filename} |->
            IF n = filename THEN [rows |-> r.rows, text |-> r.text] ELSE files[n]]
    ELSE files

HandlesAfter(handles, filename, r) ==
    IF r.left_open THEN handles \cup {filename} ELSE handles

ListToCsvFileCall ==
    /\ pc = "list_to_csv_file"
    /\ \E io \in IoOutcomes(args.content), gc \in BOOLEAN :
        LET r == ListToCsvFile(args.filename, args.content, args.delimiter,
                               args.extraction_date, io, gc)
        IN  /\ ret' = (IF r.raised = None THEN r.ret ELSE r.raised)
            /\ pc' = (IF r.raised = None THEN "returned" ELSE "raised")
            /\ fs' = FsAfter(fs, args.filename, r)
            /\ open_handles' = HandlesAfter(open_handles, args.filename, r)
            /\ log' = log \o r.log
    /\ UNCHANGED <<args, sent, current_date, report, trace>>

NextWriter == ListToCsvFileCall

SpecWriter == InitWriter /\ [][NextWriter]_vars

\* --------------------------------------------------------- get_batch_report

\* filename=f"./files/{report_name}_{formated_date}.csv"
BatchFileName(report_name, dt) ==
    "./files/" \o report_name \o "_" \o StrftimeCompact(dt) \o ".csv"

\* Mutant of LoopContinues: the range taken as exclusive of end_date.
LoopContinuesExclusive(end_date, dt) == DateGE(end_date, dt) /\ end_date # dt

\* while end_date >= current_date
LoopContinues(end_date, dt) == DateGE(end_date, dt)

\* One call made by get_batch_report: the method, the date of the iteration,
\* the file name passed (list_to_csv_file), how the call ended ("returned" or
\* "raised") with the file name returned or the error raised, and what the
\* file system did during it (list_to_csv_file).
Call(op, dt, filename, outcome, value, io) ==
    [op |-> op, date |-> dt, filename |-> filename, outcome |-> outcome,
     value |-> value, io |-> io]

\* The state at line 202: current_date = start_date.
InitBatch ==
    /\ pc = "while"
    /\ \E start \in StartDates : \E end \in EndDates(start) :
        args = [view_id |-> <<"4", "2">>, schema |-> <<>>, report_name |-> "daily",
                start_date |-> start, end_date |-> end,
                dimensions |-> <<"ga:country">>, metrics |-> <<"ga:sessions">>,
                sampling |-> "LARGE"]
    /\ current_date = args.start_date
    /\ ret = None
    /\ sent = <<>>
    /\ fs = EmptyFs
    /\ open_handles = {}
    /\ log = <<>>
    /\ report = None
    /\ trace = <<>>

\* Line 203, the loop test: enter the body, or leave the method.
BatchWhile ==
    /\ pc = "while"
    /\ \/ /\ LoopContinues(args.end_date, current_date)
          /\ pc' = "get_report"
       \/ /\ ~LoopContinues(args.end_date, current_date)
          /\ pc' = "done"
    /\ UNCHANGED <<args, ret, sent, fs, open_handles, log, current_date, report, trace>>

\* Mutant of BatchGetReport: a failed request is issued again.
BatchGetReportRetries ==
    /\ pc = "get_report"
    /\ sent' = Append(sent, ReportRequestBody(args.view_id, current_date,
                                args.dimensions, args.metrics, args.sampling))
    /\ log' = log \o <<[level |-> "debug", at |-> "get_batch_report"],
                       [level |-> "info", at |-> "get_report"]>>
    /\ \/ \E response \in BatchResponses :
            /\ report' = response
            /\ trace' = Append(trace, Call("get_report", current_date, None,
                                           "returned", None, None))
            /\ pc' = "parse_report"
       \/ /\ trace' = Append(trace, Call("get_report", current_date, None,
                                         "raised", "HttpError", None))
          /\ pc' = "get_report"
          /\ report' = report
    /\ UNCHANGED <<args, ret, fs, open_handles, current_date>>

\* Lines 204-215: the debug line, then get_report, which logs, sends the
\* request and returns the response or lets the client's error through.
BatchGetReport ==
    /\ pc = "get_report"
    /\ sent' = Append(sent, ReportRequestBody(args.view_id, current_date,
                                args.dimensions, args.metrics, args.sampling))
    /\ log' = log \o <<[level |-> "debug", at |-> "get_batch_report"],
                       [level |-> "info", at |-> "get_report"]>>
    /\ \/ \E response \in BatchResponses :
            /\ report' = response
            /\ trace' = Append(trace, Call("get_report", current_date, None,
                                           "returned", None, None))
            /\ pc' = "parse_report"
            /\ ret' = ret
       \/ /\ ret' = "HttpError"
          /\ trace' = Append(trace, Call("get_report", current_date, None,
                                         "raised", "HttpError", None))
          /\ pc' = "raised"
          /\ report' = report
    /\ UNCHANGED <<args, fs, open_handles, current_date>>

\* Mutant of BatchParseReport: an error of parse_report is swallowed and the
\* loop goes on with the next date.
BatchParseReportSwallows ==
    /\ pc = "parse_report"
    /\ \/ /\ ParseRaises(report) = None
          /\ report' = ParseReport(report, args.view_id)
          /\ trace' = Append(trace, Call("parse_report", current_date, None,
                                         "returned", None, None))
          /\ log' = Append(log, [level |-> "info", at |-> "parse_report"])
          /\ pc' = "list_to_csv_file"
          /\ current_date' = current_date
       \/ /\ ParseRaises(report) # None
          /\ trace' = Append(trace, Call("parse_report", current_date, None,
                                         "raised", ParseRaises(report), None))
          /\ pc' = "while"
          /\ current_date' = AddOneDay(current_date)
          /\ UNCHANGED <<report, log>>
    /\ UNCHANGED <<args, ret, sent, fs, open_handles>>

\* Line 216: parse_report, which returns the table or raises.
BatchParseReport ==
    /\ pc = "parse_report"
    /\ \/ /\ ParseRaises(report) = None
          /\ report' = ParseReport(report, args.view_id)
          /\ trace' = Append(trace, Call("parse_report", current_date, None,
                                         "returned", None, None))
          /\ log' = Append(log, [level |-> "info", at |-> "parse_report"])
          /\ pc' = "list_to_csv_file"
          /\ ret' = ret
       \/ /\ ParseRaises(report) # None
          /\ ret' = ParseRaises(report)
          /\ trace' = Append(trace, Call("parse_report", current_date, None,
                                         "raised", ParseRaises(report), None))
          /\ pc' = "raised"
          /\ UNCHANGED <<report, log>>
    /\ UNCHANGED <<args, sent, fs, open_handles, current_date>>

\* Lines 217-220: list_to_csv_file with the default delimiter and no
\* extraction date, then current_date += timedelta(days=1). An exception
\* leaving list_to_csv_file would leave get_batch_report too.
BatchListToCsvFile ==
    /\ pc = "list_to_csv_file"
    /\ LET filename == BatchFileName(args.report_name, current_date)
       IN  \E io \in IoOutcomes(report), gc \in BOOLEAN :
            LET r == ListToCsvFile(filename, report, <<",">>, Absent, io, gc)
            IN  /\ fs' = FsAfter(fs, filename, r)
                /\ open_handles' = HandlesAfter(open_handles, filename, r)
                /\ log' = log \o r.log
                /\ IF r.raised = None
                   THEN /\ trace' = Append(trace,
                                Call("list_to_csv_file", current_date, filename,
                                     "returned", r.ret, io.kind))
                        /\ current_date' = AddOneDay(current_date)
                        /\ pc' = "while"
                        /\ ret' = ret
                   ELSE /\ trace' = Append(trace,
                                Call("list_to_csv_file", current_date, filename,
                                     "raised", r.raised, io.kind))
                        /\ current_date' = current_date
                        /\ pc' = "raised"
                        /\ ret' = r.raised
    /\ UNCHANGED <<args, sent, report>>

NextBatch ==
    BatchWhile \/ BatchGetReport \/ BatchParseReport \/ BatchListToCsvFile

SpecBatch == InitBatch /\ [][NextBatch]_vars

\* ================================================================ properties

\* The calls of list_to_csv_file a batch run made, in order.
IsWrite(c) == c.op = "list_to_csv_file"
Writes == SelectSeq(trace, IsWrite)

StartOrdinal == DateOrdinal(args.start_date)
EndOrdinal == DateOrdinal(args.end_date)

\* ./files/{report_name}_{YYYYMMDD}.csv of a date with a four-digit year.
ExpectedPath(report_name, dt) ==
    "./files/" \o report_name \o "_"
        \o ToString(dt.y * 10000 + dt.m * 100 + dt.d) \o ".csv"

\* C1: the i-th call of list_to_csv_file is for the i-th calendar date from
\* start_date (no date skipped, none repeated, ascending), never past
\* end_date, with the path ./files/{report_name}_{YYYYMMDD}.csv; a run that
\* ends without an error has made one call for each date of
\* [start_date, end_date], and none when start_date > end_date, when no file
\* exists either.
C1_OneFilePerDate ==
    /\ \A i \in 1..Len(Writes) :
        /\ DateOrdinal(Writes[i].date) = StartOrdinal + i - 1
        /\ DateOrdinal(Writes[i].date) <= EndOrdinal
        /\ Writes[i].filename = ExpectedPath(args.report_name, Writes[i].date)
    /\ pc = "done" =>
        Len(Writes) = (IF StartOrdinal > EndOrdinal THEN 0
                       ELSE EndOrdinal - StartOrdinal + 1)
    /\ StartOrdinal > EndOrdinal => DOMAIN fs = {} /\ trace = <<>>

\* A finished run of three dates across the end of a year.
C1_Witness ==
    /\ pc = "done"
    /\ Len(Writes) = 3
    /\ Writes[1].filename = "./files/daily_20231230.csv"
    /\ Writes[3].filename = "./files/daily_20240101.csv"

\* C2: a get_report or parse_report that raised is the last call of the run;
\* the run has ended with that error, no file exists for that date, and the
\* step that raised changed no file; after it nothing happens any more.
C2_RaiseAbortsBatch ==
    /\ [](\A i \in 1..Len(trace) :
            (trace[i].op \in {"get_report", "parse_report"}
                /\ trace[i].outcome = "raised") =>
                /\ i = Len(trace)
                /\ pc = "raised"
                /\ ret = trace[i].value
                /\ BatchFileName(args.report_name, trace[i].date) \notin DOMAIN fs
                /\ \A j \in 1..Len(trace) :
                    IsWrite(trace[j]) =>
                        DateOrdinal(trace[j].date) < DateOrdinal(trace[i].date))
    /\ [][/\ pc' = "raised" => fs' = fs
          /\ pc = "raised" => UNCHANGED vars]_vars

\* parse_report raised on the second date, after the first date's file was
\* written.
C2_Witness ==
    /\ pc = "raised"
    /\ ret = "IndexError"
    /\ Len(trace) = 5
    /\ Len(Writes) = 1
    /\ Writes[1].io = "ok"

\* C3: a list_to_csv_file whose open() or row write failed returned the
\* file name it was given, raising nothing, and logged the error; the run
\* went on with the next date (or ended, after the last date), and a run
\* that ends without an error has called list_to_csv_file for every later
\* date of the range.
IsError(e) == e.level = "error"
WriteFailed(c) == IsWrite(c) /\ c.io # "ok"

C3_WriteFailureSwallowed ==
    /\ Len(SelectSeq(log, IsError)) = Len(SelectSeq(trace, WriteFailed))
    /\ \A i \in 1..Len(trace) :
        WriteFailed(trace[i]) =>
            LET d == DateOrdinal(trace[i].date)
            IN  /\ trace[i].outcome = "returned"
                /\ trace[i].value = trace[i].filename
                /\ i = Len(trace) =>
                    /\ pc \in {"while", "get_report", "done"}
                    /\ DateOrdinal(current_date) = d + 1
                    /\ pc = "get_report" => d < EndOrdinal
                    /\ pc = "done" => d = EndOrdinal
                /\ i < Len(trace) =>
                    /\ trace[i + 1].op = "get_report"
                    /\ DateOrdinal(trace[i + 1].date) = d + 1
                /\ pc = "done" =>
                    \A n \in (d + 1)..EndOrdinal :
                        \E j \in (i + 1)..Len(trace) :
                            IsWrite(trace[j]) /\ DateOrdinal(trace[j].date) = n

\* A finished run of three dates whose first open() failed and whose second
\* file broke off at a row write.
C3_Witness ==
    /\ pc = "done"
    /\ Len(Writes) = 3
    /\ Writes[1].io = "open_fails"
    /\ Writes[2].io = "write_fails"
    /\ Writes[3].io = "ok"

\* C10: the calls of a run are get_report, parse_report, list_to_csv_file in
\* turn, the k-th round of three for the k-th date from start_date: every
\* date is fetched at most once, with one request each, and the next date is
\* fetched only after the write of the date before it has returned.
StepOrder == <<"get_report", "parse_report", "list_to_csv_file">>
IsFetch(c) == c.op = "get_report"

C10_StrictlySequential ==
    /\ \A i \in 1..Len(trace) :
        /\ trace[i].op = StepOrder[((i - 1) % 3) + 1]
        /\ DateOrdinal(trace[i].date) = StartOrdinal + ((i - 1) \div 3)
        /\ i < Len(trace) => trace[i].outcome = "returned"
    /\ \A i, j \in 1..Len(trace) :
        (IsFetch(trace[i]) /\ IsFetch(trace[j]) /\ trace[i].date = trace[j].date)
            => i = j
    /\ Len(sent) = Len(SelectSeq(trace, IsFetch))

\* The second date is being fetched after the first was written.
C10_Witness ==
    /\ Len(trace) = 4
    /\ trace[3].op = "list_to_csv_file"
    /\ trace[4].op = "get_report"
    /\ trace[4].outcome = "raised"

\* ----------------------------------------------------------- get_report

\* The request of the one get_report call made.
Request == sent[1].reportRequests[1]

RequestShape ==
    /\ Len(sent) = 1
    /\ Len(sent[1].reportRequests) = 1
    /\ Len(Request.dimensions) = Len(args.dimensions)
    /\ Len(Request.metrics) = Len(args.metrics)
    /\ Len(Request.dateRanges) = 1
    /\ Request.dateRanges[1].startDate = Request.dateRanges[1].endDate
    /\ Request.dateRanges[1].startDate = StrftimeDashed(args.report_date)
    /\ Request.viewId = args.view_id
    /\ Request.pageSize = 100000

ParsedReport == args.report.reports[1]
GivenDimensions == ParsedReport.columnHeader.dimensions
GivenMetrics == ParsedReport.columnHeader.metricHeader.metricHeaderEntries
GivenRows == ParsedReport.data.rows

\* C6: the table parse_report returns has a header of D + M + 1 fields ending
\* in "view_id" and one row per data row, in the provider's order, each as
\* long as the header, holding the row's dimension values, then its metric
\* values, then the view_id given; with no data row it is the header alone.
C6_TableShape ==
    pc = "returned" =>
        LET D == Len(GivenDimensions)
            M == Len(GivenMetrics)
        IN  /\ Len(ret) = 1 + Len(GivenRows)
            /\ Len(ret[1]) = D + M + 1
            /\ ret[1][D + M + 1] = ViewIdLabel
            /\ \A i \in 1..Len(GivenRows) :
                /\ Len(ret[i + 1]) = Len(ret[1])
                /\ ret[i + 1][D + M + 1] = args.view_id
                /\ SubSeq(ret[i + 1], 1, D) = GivenRows[i].dimensions
                /\ SubSeq(ret[i + 1], D + 1, D + M) = GivenRows[i].metrics[1].values

\* A parsed report of two dimensions, one metric and two different rows.
C6_Witness ==
    /\ pc = "returned"
    /\ Len(GivenDimensions) = 2
    /\ Len(GivenMetrics) = 1
    /\ Len(GivenRows) = 2
    /\ GivenRows[1] # GivenRows[2]
    /\ Len(ret) = 3

\* A name without its leading "ga:", if it has one.
LeadingStripped(name) ==
    IF Len(name) >= 3 /\ SubSeq(name, 1, 3) = <<"g", "a", ":">>
    THEN SubSeq(name, 4, Len(name))
    ELSE name

\* C9: each header of the table is the provider's header at the same place
\* with only a leading "ga:" removed (so a name without the prefix is
\* unchanged), and stripping it once more changes nothing.
C9_HeaderStripping ==
    pc = "returned" =>
        LET D == Len(GivenDimensions)
        IN  /\ \A i \in 1..D :
                /\ ret[1][i] = LeadingStripped(GivenDimensions[i])
                /\ ReplaceGa(ret[1][i]) = ret[1][i]
            /\ \A i \in 1..Len(GivenMetrics) :
                /\ ret[1][D + i] = LeadingStripped(GivenMetrics[i].name)
                /\ ReplaceGa(ret[1][D + i]) = ret[1][D + i]

\* ------------------------------------------------------ list_to_csv_file

\* The file list_to_csv_file was asked to write.
Written == fs[args.filename]
NoErrorLogged == \A i \in 1..Len(log) : log[i].level # "error"

\* C4: with an extraction date, row i of the file is row i of content behind
\* one more field: "Extraction Date" for the header (row 0), the extraction
\* date for every other row.
C4_ExtractionDateColumn ==
    (pc = "returned" /\ args.extraction_date # Absent
        /\ args.filename \in DOMAIN fs) =>
        \A i \in 1..Len(Written.rows) :
            /\ Len(Written.rows[i]) = Len(args.content[i]) + 1
            /\ Written.rows[i][1] =
                (IF i = 1 THEN ExtractionDateLabel ELSE args.extraction_date[1])
            /\ Tail(Written.rows[i]) = args.content[i]

\* C8: when list_to_csv_file has returned, no handle it opened is open.
C8_HandleClosed == pc = "returned" => open_handles = {}

\* Re-reading a file the plain way: its lines (ended by "\r\n", "\n" or "\r"),
\* each split at every delimiter character, each piece without its enclosing
\* quotes and with doubled quotes undone.
RECURSIVE SplitLinesFrom(_, _)
SplitLinesFrom(rest, cur) ==
    IF rest = <<>> THEN (IF cur = <<>> THEN <<>> ELSE <<cur>>)
    ELSE IF Len(rest) >= 2 /\ rest[1] = CR /\ rest[2] = LF
         THEN <<cur>> \o SplitLinesFrom(SubSeq(rest, 3, Len(rest)), <<>>)
    ELSE IF Head(rest) \in {CR, LF}
         THEN <<cur>> \o SplitLinesFrom(Tail(rest), <<>>)
    ELSE SplitLinesFrom(Tail(rest), Append(cur, Head(rest)))

RECURSIVE SplitOnFrom(_, _, _)
SplitOnFrom(rest, cur, ch) ==
    IF rest = <<>> THEN <<cur>>
    ELSE IF Head(rest) = ch THEN <<cur>> \o SplitOnFrom(Tail(rest), <<>>, ch)
    ELSE SplitOnFrom(Tail(rest), Append(cur, Head(rest)), ch)

RECURSIVE Undouble(_)
Undouble(s) ==
    IF s = <<>> THEN <<>>
    ELSE IF Len(s) >= 2 /\ s[1] = QUOTE /\ s[2] = QUOTE
         THEN <<QUOTE>> \o Undouble(SubSeq(s, 3, Len(s)))
    ELSE <<Head(s)>> \o Undouble(Tail(s))

Unquote(f) ==
    IF Len(f) >= 2 /\ f[1] = QUOTE /\ f[Len(f)] = QUOTE
    THEN Undouble(SubSeq(f, 2, Len(f) - 1))
    ELSE f

ReadBack(text, delimiter) ==
    LET lines == SplitLinesFrom(text, <<>>)
    IN  [i \in 1..Len(lines) |->
            LET pieces == SplitOnFrom(lines[i], <<>>, delimiter[1])
            IN  [j \in 1..Len(pieces) |-> Unquote(pieces[j])]]

WroteWithoutDate ==
    /\ pc = "returned"
    /\ args.extraction_date = Absent
    /\ NoErrorLogged

\* C7, as stated: a table written without an extraction date and without an
\* error reads back, split on the delimiter and unquoted, as the table.
C7_RoundTrip ==
    WroteWithoutDate => ReadBack(Written.text, args.delimiter) = args.content

\* Whether a field holds the delimiter character or a line break.
Breaks(f, delimiter) ==
    \E k \in 1..Len(f) : f[k] \in {delimiter[1], CR, LF}

PlainlyReadable(content, delimiter) ==
    \A i \in 1..Len(content) :
        /\ content[i] # <<>>
        /\ \A j \in 1..Len(content[i]) : ~Breaks(content[i][j], delimiter)

\* C7, amended: such a table reads back as itself when every row has a field
\* and no field holds the delimiter character or a line break; fields that
\* hold double quotes are among them.
C7_RoundTripPlain ==
    (WroteWithoutDate /\ PlainlyReadable(args.content, args.delimiter)) =>
        ReadBack(Written.text, args.delimiter) = args.content

\* A table of two rows written with ";" whose one field holds a comma and a
\* double quote.
C7_Witness ==
    /\ WroteWithoutDate
    /\ args.delimiter = <<";">>
    /\ Len(args.content) = 2
    /\ args.content[2] = << <<"a">>, <<",", QUOTE>> >>
    /\ PlainlyReadable(args.content, args.delimiter)

====
